---- MODULE Spec2Model ----
(***************************************************************************)
(* A model of unet3d/generator_siam.py: the step calculator, the persisted *)
(* training/validation split, the raw record reader, the sample loader,    *)
(* the batch assembler with its multi-class encoder, and the data          *)
(* generator (a Python generator: a coroutine that runs from one yield to  *)
(* the next each time the caller asks for a batch).                        *)
(*                                                                         *)
(* Python values are modelled as follows.  A list or a 1-D volume is a     *)
(* sequence.  A value whose Python type matters (list against numpy array) *)
(* carries a tag: [kind |-> "list" | "ndarray", val |-> ...].  A call that *)
(* can raise returns a record with an exc field: "None" when it returned,  *)
(* else the name of the exception.  A float produced by the min-max        *)
(* normalisation is the exact fraction <<numerator, denominator>>.         *)
(***************************************************************************)
EXTENDS Integers, Sequences, FiniteSets, TLC

\* ------------------------------------------------------------- bounds
\* longest index list handed to data_generator
MaxN == 4
\* longest index list in the specification with fairness
MaxLiveN == 2
\* largest batch size
MaxBatch == 3
\* epochs counted before the epoch counter saturates
MaxEpoch == 2
\* longest subject id (in bytes) read by get_data_from_file
MaxIdLen == 3
\* largest sample count given to get_number_of_steps
MaxSamples == 12
\* largest batch size given to get_number_of_steps
MaxStepBatch == 5
\* the outcomes of shuffling a list longer than MaxN: rotations by 0..MaxRot,
\* each also reversed
MaxRot == 2

VARIABLES
    \* ---- the data generator (data_generator, lines 160-185)
    heap,               \* the list objects: "caller" is the caller's index list,
                        \* "copy" the object copy.copy made this epoch
    index_list,         \* the object the local name index_list is bound to
    orig_index_list,    \* the object orig_index_list is bound to ("unbound" before line 163)
    x_list, y_list,     \* the accumulators
    gen,                \* "none", "created", "running", "suspended" (at the yield),
                        \* "error" (an exception left the generator: it is finished),
                        \* "failed" (the factory raised before returning it)
    pc,                 \* where the running generator is: "start", "epoch" (line 164), "loop" (line 175)
    batch,              \* the last value handed to the caller by yield
    exc,                \* the exception that ended the last operation, or "None"
    batch_size, n_labels, patch_shape, shuffle_index_list, skip_blank,
    num_steps,          \* the step count returned by the factory (NoSteps before)
    \* ---- history of the current epoch (not program state)
    epoch_sizes,        \* the sizes of the batches yielded in this epoch
    epoch_popped,       \* how often each entry was handed to add_data in this epoch
    epoch,              \* finished epochs, saturating at MaxEpoch
    \* ---- the file system and the last call of get_validation_split
    fs,                 \* path -> "absent" or the pickled value
    split_call,         \* the arguments of the last call, and what it did
    \* ---- a pure function's inputs and result
    arg, ret

vars == <<heap, index_list, orig_index_list, x_list, y_list, gen, pc, batch, exc,
          batch_size, n_labels, patch_shape, shuffle_index_list, skip_blank, num_steps, epoch_sizes, epoch_popped, epoch,
          fs, split_call, arg, ret>>

genVars == <<heap, index_list, orig_index_list, x_list, y_list, gen, pc, batch, exc,
             num_steps, epoch_sizes, epoch_popped, epoch>>
cfgVars == <<batch_size, n_labels, patch_shape, shuffle_index_list, skip_blank>>
otherVars == <<fs, split_call, arg, ret>>

\* ------------------------------------------------------------- helpers
NoExc == "None"
NoSteps == 0 - 1
None == [is_none |-> TRUE, val |-> <<>>]
Some(v) == [is_none |-> FALSE, val |-> v]
PyList(v) == [kind |-> "list", val |-> v]
NdArray(v) == [kind |-> "ndarray", val |-> v]

\* all sequences over S of length at most n
SeqsUpTo(S, n) == UNION {[1..k -> S] : k \in 0..n}

Min(S) == CHOOSE m \in S : \A o \in S : m <= o
Max(S) == CHOOSE m \in S : \A o \in S : m >= o
Range(s) == {s[i] : i \in DOMAIN s}

\* range(a, b)
range(a, b) == [i \in 1..(b - a) |-> a + i - 1]

\* l * k for a list l
RECURSIVE Repeat(_, _)
Repeat(l, k) == IF k <= 0 THEN <<>> ELSE l \o Repeat(l, k - 1)

\* s without its i-th element
RemoveAt(s, i) == SubSeq(s, 1, i - 1) \o SubSeq(s, i + 1, Len(s))

\* every ordering of the elements of s
RECURSIVE Orderings(_)
Orderings(s) ==
    IF Len(s) = 0 THEN {<<>>}
    ELSE UNION {{<<s[i]>> \o p : p \in Orderings(RemoveAt(s, i))} : i \in DOMAIN s}

Rotate(s, k) == [i \in DOMAIN s |-> s[((i - 1 + k) % Len(s)) + 1]]
Reverse(s) == [i \in DOMAIN s |-> s[Len(s) + 1 - i]]

\* random.shuffle(l): the orders the list can be left in.  Every order for a
\* list of at most MaxN entries; for a longer list the orders are too many to
\* enumerate and a family of them stands for the rest.
shuffle(l) ==
    IF Len(l) <= MaxN THEN Orderings(l)
    ELSE {Rotate(l, k) : k \in 0..MaxRot} \cup {Reverse(Rotate(l, k)) : k \in 0..MaxRot}

\* ------------------------------------------------- the raw record reader
\* bytes.decode(): the character of each byte of a subject id
Chr(b) ==
    CASE b = 45 -> "-"
      [] b = 65 -> "A"
      [] b = 66 -> "B"
      [] b = 67 -> "C"
      [] b = 90 -> "Z"
      [] OTHER -> "?"
decode(bytes) == [i \in DOMAIN bytes |-> Chr(bytes[i])]

\* str.split(sep): the segments between the separators; one segment, the
\* string itself, when it holds no separator
RECURSIVE split(_, _)
split(s, sep) ==
    IF \A i \in DOMAIN s : s[i] # sep THEN <<s>>
    ELSE LET i == Min({j \in DOMAIN s : s[j] = sep})
         IN  <<SubSeq(s, 1, i - 1)>> \o split(SubSeq(s, i + 1, Len(s)), sep)

ReadResult(e, x, y, label) == [exc |-> e, x |-> x, y |-> y, label |-> label]
NoLabel == 0 - 1
ReadError(e) == ReadResult(e, <<>>, <<>>, NoLabel)

\* lines 309-315: the label of the cohort character; a bare raise outside an
\* except block is a RuntimeError
LabelOfB1(ids_AC) ==
    IF ids_AC = "C" \/ ids_AC = "B" THEN [exc |-> NoExc, label |-> 1]
    ELSE IF ids_AC = "A" THEN [exc |-> NoExc, label |-> 0]
    ELSE [exc |-> "RuntimeError", label |-> NoLabel]
LabelOf(ids_AC) ==
    IF ids_AC = "C" THEN [exc |-> NoExc, label |-> 1]
    ELSE IF ids_AC = "A" \/ ids_AC = "B" THEN [exc |-> NoExc, label |-> 0]
    ELSE [exc |-> "RuntimeError", label |-> NoLabel]

\* lines 305-316: the branch of get_data_from_file taken without a patch shape
ReadWhole(data_file, index) ==
    LET x == data_file[index].data
        y == data_file[index].truth
        ids == decode(data_file[index].subject_ids)
        segments == split(ids, "-")
        last == segments[Len(segments)]
    IN  IF Len(last) = 0 THEN ReadError("IndexError")
        ELSE LET l == LabelOf(last[1])
             IN  IF l.exc # NoExc THEN ReadError(l.exc)
                 ELSE ReadResult(NoExc, x, y, l.label)

\* get_data_from_file.  With a patch shape the index is a pair and line 301
\* unpacks the three values of the inner call into two names: a ValueError,
\* unless the inner call raised first.
get_data_from_file(data_file, index, patch) ==
    IF patch
    THEN LET inner == ReadWhole(data_file, index[1])
         IN  IF inner.exc # NoExc THEN inner ELSE ReadError("ValueError")
    ELSE ReadWhole(data_file, index)

\* ------------------------------------------------------ the sample loader
\* np.any(truth != 0) for a truth volume with its channel axis
AnyNonzero(truth) == \E c \in DOMAIN truth : \E v \in DOMAIN truth[c] : truth[c][v] # 0

\* line 264: whether the sample is recorded
KeepSampleBothNonzero(skip, truth0, truth1) ==
    ~skip \/ (AnyNonzero(truth0) /\ AnyNonzero(truth1))
KeepSample(skip, truth0, truth1) ==
    ~skip \/ (AnyNonzero(truth0) \/ AnyNonzero(truth1))

\* lines 274-282: min-max normalisation; a constant volume becomes zeros
Normalise(data) ==
    LET lo == Min(Range(data))
        hi == Max(Range(data))
    IN  IF lo = hi THEN [i \in DOMAIN data |-> <<0, 1>>]
        ELSE [i \in DOMAIN data |-> <<data[i] - lo, hi - lo>>]

AddResult(e, xl, yl) == [exc |-> e, x_list |-> xl, y_list |-> yl]

\* lines 240-296 of add_data, given what the two reads of lines 237-238
\* returned.  An exception leaves the accumulators as they were.
\* permute=True reads the undefined name data: a NameError.
AddRead(xl, yl, r0, r1, skip, perm) ==
    IF r0.exc # NoExc THEN AddResult(r0.exc, xl, yl)
    ELSE IF r1.exc # NoExc THEN AddResult(r1.exc, xl, yl)
    ELSE IF r0.label # r1.label THEN AddResult("RuntimeError", xl, yl)
    ELSE IF perm THEN AddResult("NameError", xl, yl)
    ELSE LET truth0 == <<r0.y>>
             truth1 == <<r1.y>>
         IN  IF KeepSample(skip, truth0, truth1)
             THEN AddResult(NoExc,
                    <<Append(xl[1], Normalise(r0.x)), Append(xl[2], Normalise(r1.x))>>,
                    <<Append(yl[1], r0.label), Append(yl[2], truth0), Append(yl[3], truth1)>>)
             ELSE AddResult(NoExc, xl, yl)

\* add_data with augment=False.  (The two reads are bound as values, so that
\* each is computed once.)
add_data(xl, yl, file0, file1, index, patch, skip, perm) ==
    CHOOSE added \in {AddRead(xl, yl, r0, r1, skip, perm) :
                        r0 \in {get_data_from_file(file0, index, patch)},
                        r1 \in {get_data_from_file(file1, index, patch)}} : TRUE

\* ---------------------------------------------------- the batch assembler
\* get_multi_class_labels: data.shape of a value that is no array is an
\* AttributeError; labels[label_index] past the end of labels an IndexError
get_multi_class_labels(data, n, lab) ==
    IF data.kind # "ndarray" THEN [exc |-> "AttributeError", val |-> data]
    ELSE IF n > 0 /\ ~lab.is_none /\ Len(lab.val) < n THEN [exc |-> "IndexError", val |-> data]
    ELSE [exc |-> NoExc,
          val |-> NdArray([s \in DOMAIN data.val |->
                     [k \in 1..n |->
                        [v \in DOMAIN data.val[s][1] |->
                           IF data.val[s][1][v] = (IF lab.is_none THEN k ELSE lab.val[k])
                           THEN 1 ELSE 0]]])]

\* lines 347-348: y[y > 0] = 1
Binarise(truths) ==
    [s \in DOMAIN truths |-> [c \in DOMAIN truths[s] |->
        [v \in DOMAIN truths[s][c] |-> IF truths[s][c][v] > 0 THEN 1 ELSE truths[s][c][v]]]]

\* convert_data: x and y are Python lists of arrays; with n_labels > 1 the
\* whole list y is handed to get_multi_class_labels
convert_data(xl, yl, n, lab) ==
    LET x == PyList(<<NdArray(xl[1]), NdArray(xl[2])>>)
        y == PyList(<<NdArray(yl[1]), NdArray(yl[2]), NdArray(yl[3])>>)
    IN  IF n = 1
        THEN [exc |-> NoExc, x |-> x,
              y |-> PyList(<<NdArray(yl[1]), NdArray(Binarise(yl[2])), NdArray(Binarise(yl[3]))>>)]
        ELSE IF n > 1
        THEN LET m == get_multi_class_labels(y, n, lab)
             IN  [exc |-> m.exc, x |-> x, y |-> m.val]
        ELSE [exc |-> NoExc, x |-> x, y |-> y]

\* ------------------------------------------------------ the step counter
\* get_number_of_steps, lines 97-103
get_number_of_steps_ceiling(n_samples, bsize) ==
    IF n_samples % bsize = 0 THEN n_samples \div bsize ELSE n_samples \div bsize + 1
get_number_of_steps(n_samples, bsize) ==
    IF n_samples <= bsize THEN n_samples
    ELSE IF n_samples % bsize = 0 THEN n_samples \div bsize
    ELSE n_samples \div bsize + 1

\* get_number_of_patches, lines 188-202.  With a patch shape and a non-empty
\* list, line 197 calls add_data without its index argument: a TypeError.
get_number_of_patches(l, patch) ==
    IF patch
    THEN IF Len(l) > 0 THEN [exc |-> "TypeError", count |-> 0]
         ELSE [exc |-> NoExc, count |-> 0]
    ELSE [exc |-> NoExc, count |-> Len(l)]

\* --------------------------------------------------- the data generator
\* A pair of twin dataset files of three subjects, by subject index 0..2:
\* subject 0 has a blank truth in file 0 and a nonzero one in file 1 (cohort C),
\* subject 1 is blank in both files (cohort A), subject 2 is of cohort B
\* in file 0 and of cohort C in file 1 (the labels disagree).
Record(d, t, ids) == [data |-> d, truth |-> t, subject_ids |-> ids]
Subjects == 0..2
TwinFile0 ==
    [i \in Subjects |->
        <<Record(<<2, 10>>, <<0, 0>>, <<90, 45, 67>>),
          Record(<<5, 5>>, <<0, 0>>, <<45, 65>>),
          Record(<<1, 3>>, <<1, 2>>, <<90, 45, 66>>)>>[i + 1]]
TwinFile1 ==
    [i \in Subjects |->
        <<Record(<<4, 6>>, <<0, 2>>, <<90, 45, 67>>),
          Record(<<7, 7>>, <<0, 0>>, <<45, 65>>),
          Record(<<0, 3>>, <<1, 0>>, <<90, 45, 67>>)>>[i + 1]]

EmptyX == <<<<>>, <<>>>>
EmptyY == <<<<>>, <<>>, <<>>>>
NoBatch == [exc |-> NoExc, x |-> PyList(<<>>), y |-> PyList(<<>>)]
NoPopped == [i \in Subjects |-> 0]
NoCall == [op |-> "none"]

\* copy.copy(orig_index_list), line 171: the object the new list lives in
CopyAlias(ref) == ref
copy(ref) == "copy"

\* line 181: whether the accumulated samples are yielded
ShouldYieldFullOnly(yl, l, bsize) == Len(yl[1]) = bsize
ShouldYield(yl, l, bsize) ==
    Len(yl[1]) = bsize \/ (Len(l) = 0 /\ Len(yl[1]) > 0)

NoRet == [op |-> "none"]
NoFiles == <<>>

\* the variables the generator specification leaves alone
IdleOther ==
    /\ fs = NoFiles
    /\ split_call = NoCall
    /\ arg = NoCall
    /\ ret = NoRet

\* the generator's variables where no generator is modelled
IdleGen ==
    /\ heap = [caller |-> <<>>, copy |-> <<>>]
    /\ index_list = "caller"
    /\ orig_index_list = "unbound"
    /\ gen = "none"
    /\ pc = "start"
    /\ batch_size = 1
    /\ n_labels = 1
    /\ patch_shape = FALSE
    /\ shuffle_index_list = FALSE
    /\ num_steps = NoSteps
    /\ epoch_sizes = <<>>
    /\ epoch_popped = NoPopped
    /\ epoch = 0

\* the arguments of data_generator: an index list of at most n subject
\* indices, and the keyword arguments the model varies (labels=None,
\* augment=False and permute=False are the defaults and stay so)
InitGenUpTo(n) ==
    /\ heap \in {[caller |-> l, copy |-> <<>>] : l \in SeqsUpTo(Subjects, n)}
    /\ index_list = "caller"
    /\ orig_index_list = "unbound"
    /\ x_list = EmptyX
    /\ y_list = EmptyY
    /\ gen = "none"
    /\ pc = "start"
    /\ batch = NoBatch
    /\ exc = NoExc
    /\ batch_size \in 1..MaxBatch
    /\ n_labels \in {1, 2}
    /\ patch_shape \in BOOLEAN
    /\ shuffle_index_list \in BOOLEAN
    /\ skip_blank \in BOOLEAN
    /\ num_steps = NoSteps
    /\ epoch_sizes = <<>>
    /\ epoch_popped = NoPopped
    /\ epoch = 0
    /\ IdleOther

\* a direct call of data_generator: the generator object exists, none of its
\* body has run
CallDataGenerator ==
    /\ gen = "none"
    /\ gen' = "created"
    /\ UNCHANGED <<heap, index_list, orig_index_list, x_list, y_list, pc, batch, exc,
                   num_steps, epoch_sizes, epoch_popped, epoch>>
    /\ UNCHANGED cfgVars
    /\ UNCHANGED otherVars

\* get_training_and_validation_generators, lines 60-94, for one of its two
\* generators: the generator is created and its step count computed
GetGenerators ==
    /\ gen = "none"
    /\ LET patches == get_number_of_patches(heap["caller"], patch_shape)
       IN  IF patches.exc # NoExc
           THEN /\ gen' = "failed"
                /\ exc' = patches.exc
                /\ num_steps' = num_steps
           ELSE /\ gen' = "created"
                /\ exc' = exc
                /\ num_steps' = get_number_of_steps(patches.count, batch_size)
    /\ UNCHANGED <<heap, index_list, orig_index_list, x_list, y_list, pc, batch,
                   epoch_sizes, epoch_popped, epoch>>
    /\ UNCHANGED cfgVars
    /\ UNCHANGED otherVars

\* next(generator): the caller asks for a batch.  The first request runs
\* line 163; a later one resumes after the yield with lines 184-185.
Request ==
    /\ gen \in {"created", "suspended"}
    /\ gen' = "running"
    /\ IF gen = "created"
       THEN /\ orig_index_list' = index_list
            /\ pc' = "epoch"
            /\ UNCHANGED <<x_list, y_list>>
       ELSE /\ x_list' = EmptyX
            /\ y_list' = EmptyY
            /\ pc' = "loop"
            /\ UNCHANGED orig_index_list
    /\ UNCHANGED <<heap, index_list, batch, exc, num_steps, epoch_sizes, epoch_popped, epoch>>
    /\ UNCHANGED cfgVars
    /\ UNCHANGED otherVars

\* lines 165-174: the top of while True.  With a patch shape line 168 reads
\* the undefined name data_file: a NameError ends the generator.
EpochStart ==
    /\ gen = "running"
    /\ pc = "epoch"
    /\ IF patch_shape
       THEN /\ gen' = "error"
            /\ exc' = "NameError"
            /\ x_list' = EmptyX
            /\ y_list' = EmptyY
            /\ UNCHANGED <<heap, index_list, pc, epoch_sizes, epoch_popped>>
       ELSE /\ x_list' = EmptyX
            /\ y_list' = EmptyY
            /\ index_list' = copy(orig_index_list)
            /\ \E order \in (IF shuffle_index_list
                             THEN shuffle(heap[orig_index_list])
                             ELSE {heap[orig_index_list]}) :
                   heap' = [heap EXCEPT ![index_list'] = order]
            /\ pc' = "loop"
            /\ epoch_sizes' = <<>>
            /\ epoch_popped' = NoPopped
            /\ UNCHANGED <<gen, exc>>
    /\ UNCHANGED <<orig_index_list, batch, num_steps, epoch>>
    /\ UNCHANGED cfgVars
    /\ UNCHANGED otherVars

\* lines 181-182, after add_data returned added with rest left in the
\* working list: how the turn of the inner loop ends ("loop": on to line 175,
\* "yield": a batch is yielded, "raise": an exception leaves the generator)
TurnEnd(index, rest, added) ==
    LET base == [index |-> index, rest |-> rest, x_list |-> added.x_list,
                 y_list |-> added.y_list, batch |-> batch, exc |-> exc, ends |-> "loop"]
    IN  IF added.exc # NoExc
        THEN [base EXCEPT !.exc = added.exc, !.ends = "raise"]
        ELSE IF ~ShouldYield(added.y_list, rest, batch_size) THEN base
        ELSE CHOOSE t \in {IF converted.exc # NoExc
                           THEN [base EXCEPT !.exc = converted.exc, !.ends = "raise"]
                           ELSE [base EXCEPT !.batch = converted, !.ends = "yield"] :
                           converted \in {convert_data(added.x_list, added.y_list,
                                                       n_labels, None)}} : TRUE

\* lines 176-182: one turn of the inner loop (labels=None and permute=False,
\* the defaults)
Turn ==
    LET l == heap[index_list]
        index == l[Len(l)]
        rest == SubSeq(l, 1, Len(l) - 1)
    IN  CHOOSE t \in {TurnEnd(index, rest, added) :
                        added \in {add_data(x_list, y_list, TwinFile0, TwinFile1, index,
                                            patch_shape, skip_blank, FALSE)}} : TRUE

\* lines 175-182: one turn of the inner loop, up to the yield if it is reached
PopAdd ==
    /\ gen = "running"
    /\ pc = "loop"
    /\ Len(heap[index_list]) > 0
    /\ \E turn \in {Turn} :
        /\ heap' = [heap EXCEPT ![index_list] = turn.rest]
        /\ epoch_popped' = [epoch_popped EXCEPT ![turn.index] = @ + 1]
        /\ x_list' = turn.x_list
        /\ y_list' = turn.y_list
        /\ batch' = turn.batch
        /\ exc' = turn.exc
        /\ gen' = (CASE turn.ends = "raise" -> "error"
                     [] turn.ends = "yield" -> "suspended"
                     [] OTHER -> "running")
        /\ epoch_sizes' = (IF turn.ends = "yield"
                           THEN Append(epoch_sizes, Len(turn.y_list[1]))
                           ELSE epoch_sizes)
    /\ UNCHANGED <<index_list, orig_index_list, pc, num_steps, epoch>>
    /\ UNCHANGED cfgVars
    /\ UNCHANGED otherVars

\* line 175 finds the working list empty: back to line 164
EpochEnd ==
    /\ gen = "running"
    /\ pc = "loop"
    /\ Len(heap[index_list]) = 0
    /\ pc' = "epoch"
    /\ epoch' = IF epoch < MaxEpoch THEN epoch + 1 ELSE epoch
    /\ UNCHANGED <<heap, index_list, orig_index_list, x_list, y_list, gen, batch, exc,
                   num_steps, epoch_sizes, epoch_popped>>
    /\ UNCHANGED cfgVars
    /\ UNCHANGED otherVars

\* the steps the running generator takes by itself
GenStep == EpochStart \/ PopAdd \/ EpochEnd

NextGen == CallDataGenerator \/ GetGenerators \/ Request \/ EpochStart \/ PopAdd \/ EpochEnd

InitGen == InitGenUpTo(MaxN)
SpecGen == InitGen /\ [][NextGen]_vars

\* Python runs a resumed generator until it yields or raises: its steps are
\* weakly fair.  The caller is free to stop asking.
InitGenLive == InitGenUpTo(MaxLiveN)
FairSpecGen == InitGenLive /\ [][NextGen]_vars /\ WF_vars(GenStep)

\* ------------------------------------------- properties of the generator
Count(l, e) == Cardinality({i \in DOMAIN l : l[i] = e})
IsPrefix(p, l) == Len(p) <= Len(l) /\ \A i \in DOMAIN p : p[i] = l[i]

\* the blank filter drops this entry of the index list
Dropped(index) ==
    ~KeepSample(skip_blank, <<TwinFile0[index].truth>>, <<TwinFile1[index].truth>>)
NoneDropped == \A i \in DOMAIN heap["caller"] : ~Dropped(heap["caller"][i])

\* floor(n/b) batches of b samples, then one of n mod b samples if n mod b > 0
ExpectedSizes(n, b) ==
    [i \in 1..(n \div b) |-> b] \o (IF n % b > 0 THEN <<n % b>> ELSE <<>>)

\* the number of samples in each of the five arrays of a yielded batch
BatchLens(b) == {Len(b.x.val[i].val) : i \in 1..2} \cup {Len(b.y.val[i].val) : i \in 1..3}

EpochDone == pc = "epoch" /\ epoch >= 1
Plain == ~patch_shape /\ Len(heap["caller"]) >= 1

\* C1: with no patch shape and no sample dropped by the blank filter, the
\* batches yielded in an epoch over n >= 1 entries with batch size b are
\* floor(n/b) batches of b samples followed by one of n mod b samples when
\* n mod b > 0, in every epoch: at every moment the sizes yielded so far in
\* the epoch are a prefix of that pattern, a finished epoch has yielded all of
\* it, and the batch at the caller has between 1 and b samples in every array.
C1_EpochBatchSizes ==
    (Plain /\ NoneDropped) =>
        LET expected == ExpectedSizes(Len(heap["caller"]), batch_size)
        IN  /\ IsPrefix(epoch_sizes, expected)
            /\ EpochDone => epoch_sizes = expected
            /\ gen = "suspended" =>
                  /\ BatchLens(batch) = {epoch_sizes[Len(epoch_sizes)]}
                  /\ \A n \in BatchLens(batch) : 1 <= n /\ n <= batch_size

\* a second epoch over 4 entries with batch size 3 has ended after batches of 3 and 1
C1_Witness ==
    /\ Plain /\ NoneDropped
    /\ EpochDone /\ epoch >= 2
    /\ Len(heap["caller"]) = 4 /\ batch_size = 3
    /\ epoch_sizes = <<3, 1>>

\* C8: with no patch shape and no sample dropped, the step count the factory
\* returns equals the number of batches the generator yields in one epoch.
C8_StepsEqualBatches ==
    (Plain /\ NoneDropped /\ num_steps # NoSteps /\ EpochDone) =>
        num_steps = Len(epoch_sizes)

\* a fatal error raised while loading a sample ended the generator
LoadingError == gen = "error" /\ exc \in {"RuntimeError", "IndexError"}

\* the request returned a non-empty batch
Yielded == gen = "suspended" /\ \A n \in BatchLens(batch) : n >= 1

\* C9: for a non-empty index list and every setting of skip_blank, each
\* request for the next batch eventually returns a non-empty batch, unless a
\* fatal error is raised while loading.  (Stated where nothing but loading
\* can raise: without a patch shape, which line 168 cannot handle, and with
\* n_labels = 1.)
C9_RequestYields ==
    (gen = "running" /\ ~patch_shape /\ n_labels = 1 /\ Len(heap["caller"]) >= 1)
        ~> (Yielded \/ LoadingError)

\* what does hold: the request returns a batch when the blank filter keeps
\* at least one entry of the list
SomeKeptRequestYields ==
    (gen = "running" /\ ~patch_shape /\ n_labels = 1
        /\ \E i \in DOMAIN heap["caller"] : ~Dropped(heap["caller"][i]))
        ~> (Yielded \/ LoadingError)

\* C10: with no patch shape the generator never changes the caller's index
\* list, and in every epoch it hands each entry of that list to add_data
\* exactly once: never more often than the entry occurs in the list, and as
\* often as it occurs once the epoch has ended.
C10_ListKeptAndCovered ==
    /\ [][heap'["caller"] = heap["caller"]]_vars
    /\ [](~patch_shape =>
            /\ \A e \in Subjects : epoch_popped[e] <= Count(heap["caller"], e)
            /\ EpochDone => \A e \in Subjects : epoch_popped[e] = Count(heap["caller"], e))

\* a second shuffled epoch over a list of several different entries has ended
C10_Witness ==
    /\ ~patch_shape /\ shuffle_index_list
    /\ EpochDone /\ epoch >= 2
    /\ Cardinality(Range(heap["caller"])) >= 2
    /\ \A e \in Subjects : epoch_popped[e] = Count(heap["caller"], e)

\* ------------------------------------------------ get_number_of_steps
InitSteps ==
    /\ arg \in [n_samples : 0..MaxSamples, batch_size : 1..MaxStepBatch]
    /\ ret = NoRet
    /\ fs = NoFiles
    /\ split_call = NoCall
    /\ x_list = EmptyX /\ y_list = EmptyY /\ batch = NoBatch /\ exc = NoExc
    /\ skip_blank = FALSE
    /\ IdleGen

GetNumberOfSteps ==
    /\ ret.op = "none"
    /\ ret' = [op |-> "get_number_of_steps",
               val |-> get_number_of_steps(arg.n_samples, arg.batch_size)]
    /\ UNCHANGED <<arg, fs, split_call>>
    /\ UNCHANGED genVars
    /\ UNCHANGED cfgVars

NextSteps == GetNumberOfSteps
SpecSteps == InitSteps /\ [][NextSteps]_vars

\* C4: get_number_of_steps(n, b) returns n when n <= b and otherwise the
\* ceiling of n/b, the least r with r * b >= n; (10, 3) gives 4 and (9, 3)
\* gives 3.
C4_StepsValue ==
    ret.op = "get_number_of_steps" =>
        LET n == arg.n_samples
            b == arg.batch_size
            r == ret.val
        IN  /\ n <= b => r = n
            /\ n > b => (r * b >= n /\ (r - 1) * b < n)
            /\ (n > b /\ n % b = 0) => r = n \div b
            /\ (n > b /\ n % b # 0) => r = n \div b + 1
            /\ (n = 10 /\ b = 3) => r = 4
            /\ (n = 9 /\ b = 3) => r = 3

\* get_number_of_steps(2, 3) has returned 2: two samples, fewer than a batch
C4_Witness ==
    /\ ret.op = "get_number_of_steps"
    /\ arg.n_samples = 2 /\ arg.batch_size = 3
    /\ ret.val = 2

\* ------------------------------------------------ get_data_from_file
IdBytes == {45, 65, 66, 67, 90}
OneSubject(rec) == [i \in {0} |-> rec]

InitRead ==
    /\ arg \in [subject_ids : SeqsUpTo(IdBytes, MaxIdLen),
                data : {<<2, 10>>}, truth : {<<0, 1>>}, patch_shape : BOOLEAN]
    /\ ret = NoRet
    /\ fs = NoFiles
    /\ split_call = NoCall
    /\ x_list = EmptyX /\ y_list = EmptyY /\ batch = NoBatch /\ exc = NoExc
    /\ skip_blank = FALSE
    /\ IdleGen

\* get_data_from_file(data_file, 0) on a file of one subject, or with a
\* patch shape get_data_from_file(data_file, (0, patch_index), patch_shape)
GetDataFromFile ==
    /\ ret.op = "none"
    /\ LET data_file == OneSubject(Record(arg.data, arg.truth, arg.subject_ids))
           index == IF arg.patch_shape THEN <<0, 0>> ELSE 0
       IN  ret' = [op |-> "get_data_from_file",
                   val |-> get_data_from_file(data_file, index, arg.patch_shape)]
    /\ UNCHANGED <<arg, fs, split_call>>
    /\ UNCHANGED genVars
    /\ UNCHANGED cfgVars

NextRead == GetDataFromFile
SpecRead == InitRead /\ [][NextRead]_vars

\* the place of the last "-" of a decoded id, 0 when it holds none
LastDash(ids) == Max({0} \cup {i \in DOMAIN ids : ids[i] = "-"})

\* C5: without a patch shape get_data_from_file derives the label from the
\* first character after the last "-" of the decoded subject id: "C" gives 1,
\* "A" or "B" gives 0, and any other character (or none) ends the read in an
\* exception, with no (data, truth, label) returned.
C5_LabelOfId ==
    (ret.op = "get_data_from_file" /\ ~arg.patch_shape
        /\ LastDash(decode(arg.subject_ids)) > 0) =>
        LET ids == decode(arg.subject_ids)
            at == LastDash(ids) + 1
            returned(label) ==
                ret.val = [exc |-> NoExc, x |-> arg.data, y |-> arg.truth, label |-> label]
        IN  IF at <= Len(ids) /\ ids[at] = "C" THEN returned(1)
            ELSE IF at <= Len(ids) /\ ids[at] \in {"A", "B"} THEN returned(0)
            ELSE /\ ret.val.exc # NoExc
                 /\ ret.val.x = <<>> /\ ret.val.y = <<>> /\ ret.val.label = NoLabel

\* the read of the id "A-Z" has ended in the RuntimeError of the bare raise
C5_Witness ==
    /\ ret.op = "get_data_from_file" /\ ~arg.patch_shape
    /\ decode(arg.subject_ids) = <<"A", "-", "Z">>
    /\ ret.val.exc = "RuntimeError"

\* ------------------------------------------- add_data and convert_data
\* the subject ids "Z-A", "Z-B", "Z-C", "Z-Z"
SampleIds == {<<90, 45, c>> : c \in {65, 66, 67, 90}}
Volumes(vals) == [1..2 -> vals]
\* accumulators holding one earlier sample
EarlierX == <<<<Normalise(<<1, 3>>)>>, <<Normalise(<<4, 4>>)>>>>
EarlierY == <<<<0>>, <<<<<<2, 0>>>>>>, <<<<<<0, 1>>>>>>>>

InitSample ==
    /\ arg \in [data0 : {<<5, 5>>, <<2, 10>>}, data1 : {<<0, 3>>},
                truth0 : Volumes(0..2), truth1 : {<<0, 0>>, <<0, 2>>, <<1, 0>>},
                ids0 : SampleIds, ids1 : {<<90, 45, 66>>, <<90, 45, 67>>},
                permute : BOOLEAN]
    /\ skip_blank \in BOOLEAN
    /\ \/ x_list = EmptyX /\ y_list = EmptyY
       \/ x_list = EarlierX /\ y_list = EarlierY
    /\ batch = NoBatch
    /\ exc = NoExc
    /\ ret = NoRet
    /\ fs = NoFiles
    /\ split_call = NoCall
    /\ IdleGen

\* add_data(x_list, y_list, data_file0, data_file1, 0, skip_blank=..., permute=...)
\* on twin files of one subject; ret keeps the accumulators of before the call
AddData ==
    /\ ret.op = "none"
    /\ LET file0 == OneSubject(Record(arg.data0, arg.truth0, arg.ids0))
           file1 == OneSubject(Record(arg.data1, arg.truth1, arg.ids1))
       IN  \E added \in {add_data(x_list, y_list, file0, file1, 0, FALSE,
                                  skip_blank, arg.permute)} :
              /\ x_list' = added.x_list
              /\ y_list' = added.y_list
              /\ exc' = added.exc
    /\ ret' = [op |-> "add_data", x_list |-> x_list, y_list |-> y_list]
    /\ UNCHANGED <<arg, fs, split_call, batch, skip_blank>>
    /\ UNCHANGED <<heap, index_list, orig_index_list, gen, pc, num_steps, epoch_sizes,
                   epoch_popped, epoch, batch_size, n_labels, patch_shape,
                   shuffle_index_list>>

LabelLists == {None, Some(<<1, 2>>), Some(<<2, 1>>), Some(<<1>>)}

\* convert_data(x_list, y_list, n_labels=n, labels=lab) on the accumulators
ConvertData ==
    /\ ret.op \in {"none", "add_data"}
    /\ exc = NoExc
    /\ \E n \in 0..2 : \E lab \in LabelLists :
          \E converted \in {convert_data(x_list, y_list, n, lab)} :
              /\ batch' = converted
              /\ exc' = converted.exc
              /\ ret' = [op |-> "convert_data", n_labels |-> n, labels |-> lab]
    /\ UNCHANGED <<arg, fs, split_call, x_list, y_list, skip_blank>>
    /\ UNCHANGED <<heap, index_list, orig_index_list, gen, pc, num_steps, epoch_sizes,
                   epoch_popped, epoch, batch_size, n_labels, patch_shape,
                   shuffle_index_list>>

\* get_multi_class_labels(np.asarray(y_list[1]), n, lab): the encoder handed
\* the array of the first truth volumes
GetMultiClassLabels ==
    /\ ret.op \in {"none", "add_data"}
    /\ exc = NoExc
    /\ \E n \in 1..2 : \E lab \in LabelLists :
          \E encoded \in {get_multi_class_labels(NdArray(y_list[2]), n, lab)} :
              /\ batch' = [exc |-> encoded.exc, x |-> PyList(<<>>), y |-> encoded.val]
              /\ exc' = encoded.exc
              /\ ret' = [op |-> "get_multi_class_labels", n_labels |-> n, labels |-> lab]
    /\ UNCHANGED <<arg, fs, split_call, x_list, y_list, skip_blank>>
    /\ UNCHANGED <<heap, index_list, orig_index_list, gen, pc, num_steps, epoch_sizes,
                   epoch_popped, epoch, batch_size, n_labels, patch_shape,
                   shuffle_index_list>>

NextSample == AddData \/ ConvertData \/ GetMultiClassLabels
SpecSample == InitSample /\ [][NextSample]_vars

\* the cohort character of a sample id and the label it stands for
CohortOf(ids) == decode(ids)[3]
SameValidLabel ==
    /\ CohortOf(arg.ids0) \in {"A", "B", "C"}
    /\ CohortOf(arg.ids1) \in {"A", "B", "C"}
    /\ (CohortOf(arg.ids0) = "C") <=> (CohortOf(arg.ids1) = "C")
HasNonzero(vol) == \E v \in DOMAIN vol : vol[v] # 0
\* new is old with exactly one entry appended
OneAppended(old, new) == Len(new) = Len(old) + 1 /\ SubSeq(new, 1, Len(old)) = old

\* C6: add_data without augmentation or permutation and with matching labels
\* appends exactly one entry to each of the two x_list slots and each of the
\* three y_list slots if skip_blank is false or one of the two truth volumes
\* has a nonzero voxel; with skip_blank true and both truth volumes all zero
\* it leaves every slot as it was; it raises in neither case.
C6_BlankFilter ==
    (ret.op = "add_data" /\ ~arg.permute /\ SameValidLabel) =>
        /\ exc = NoExc
        /\ IF ~skip_blank \/ HasNonzero(arg.truth0) \/ HasNonzero(arg.truth1)
           THEN /\ \A i \in 1..2 : OneAppended(ret.x_list[i], x_list[i])
                /\ \A i \in 1..3 : OneAppended(ret.y_list[i], y_list[i])
                /\ y_list[1][Len(y_list[1])] = (IF CohortOf(arg.ids0) = "C" THEN 1 ELSE 0)
                /\ y_list[2][Len(y_list[2])] = <<arg.truth0>>
                /\ y_list[3][Len(y_list[3])] = <<arg.truth1>>
           ELSE x_list = ret.x_list /\ y_list = ret.y_list

\* a sample blank only in file 0 was kept with skip_blank on, after an earlier sample
C6_Witness ==
    /\ ret.op = "add_data" /\ ~arg.permute /\ SameValidLabel
    /\ skip_blank
    /\ ~HasNonzero(arg.truth0) /\ HasNonzero(arg.truth1)
    /\ ret.x_list = EarlierX
    /\ Len(y_list[1]) = 2

\* the multi-class encoding: channel k is 1 exactly where the voxel
\* equals labels[k], or k when labels is absent
Encoded(truths, n, lab) ==
    [s \in DOMAIN truths |-> [k \in 1..n |-> [v \in DOMAIN truths[s][1] |->
        IF truths[s][1][v] = (IF lab.is_none THEN k ELSE lab.val[k]) THEN 1 ELSE 0]]]

\* C7: convert_data with n_labels > 1 returns a batch whose two truth arrays
\* are the multi-class encodings of the accumulated truth volumes, and whose
\* two image arrays and label array are as accumulated.
C7_MultiClassBatch ==
    (ret.op = "convert_data" /\ ret.n_labels > 1
        /\ (ret.labels.is_none \/ Len(ret.labels.val) >= ret.n_labels)) =>
        /\ batch.exc = NoExc
        /\ batch.x = PyList(<<NdArray(x_list[1]), NdArray(x_list[2])>>)
        /\ batch.y = PyList(<<NdArray(y_list[1]),
                              NdArray(Encoded(y_list[2], ret.n_labels, ret.labels)),
                              NdArray(Encoded(y_list[3], ret.n_labels, ret.labels))>>)

\* handed an array, get_multi_class_labels returns that encoding
EncoderEncodes ==
    (ret.op = "get_multi_class_labels" /\ batch.exc = NoExc) =>
        batch.y = NdArray(Encoded(y_list[2], ret.n_labels, ret.labels))

\* ------------------------------------------------ get_validation_split
\* lines 124-134: the hand-coded cohort ranges
test_listA == range(10, 30)
train_listA1 == range(0, 10)
train_listA2 == range(30, 42)
test_listB == range(52, 72)
train_listB1 == range(42, 52)
train_listB2 == range(72, 239)
test_listC == range(249, 269)
train_listC1 == range(239, 249)
train_listC2 == range(269, 299)

\* line 136, before the shuffle of line 139
training_list ==
    train_listA1 \o train_listA2 \o train_listB1 \o train_listB2
        \o <<train_listB2[Len(train_listB2)]>>
        \o Repeat(train_listC1, 5) \o Repeat(train_listC2, 5)

\* line 137 (line 140, the shuffle of the validation list, is commented out)
validation_list_reordered == test_listB \o test_listA \o test_listC
validation_list == test_listA \o test_listB \o test_listC

\* the files a split can be kept in
TrainingFiles == {"training_1.pkl", "training_2.pkl"}
ValidationFiles == {"validation_1.pkl", "validation_2.pkl"}
Absent == [exists |-> FALSE, pickled |-> <<>>]

\* pickle_dump(value, path) and pickle_load(path) of unet3d.utils: a file
\* holding the serialised value, and the value read back from it
pickle_dump(files, value, path) ==
    [files EXCEPT ![path] = [exists |-> TRUE, pickled |-> [list |-> value]]]
pickle_load(files, path) ==
    IF files[path].exists THEN [exc |-> NoExc, val |-> files[path].pickled.list]
    ELSE [exc |-> "FileNotFoundError", val |-> <<>>]

\* line 118: whether the split is created
ShouldCreateAlways(overwrite, exists) == TRUE
ShouldCreate(overwrite, exists) == overwrite \/ ~exists

InitSplit ==
    /\ fs = [p \in TrainingFiles \cup ValidationFiles |-> Absent]
    /\ split_call = NoCall
    /\ arg = NoCall
    /\ ret = NoRet
    /\ x_list = EmptyX /\ y_list = EmptyY /\ batch = NoBatch /\ exc = NoExc
    /\ skip_blank = FALSE
    /\ IdleGen

\* get_validation_split(data_file, training_file, validation_file, overwrite=...);
\* split_call records the call and what it returned or raised
GetValidationSplit ==
    /\ \E training_file \in TrainingFiles : \E validation_file \in ValidationFiles :
       \E overwrite \in BOOLEAN :
       LET call == [op |-> "get_validation_split", training_file |-> training_file,
                    validation_file |-> validation_file, overwrite |-> overwrite]
       IN  IF ShouldCreate(overwrite, fs[training_file].exists)
           THEN \E shuffled \in shuffle(training_list) :
                   /\ fs' = pickle_dump(pickle_dump(fs, shuffled, training_file),
                                        validation_list, validation_file)
                   /\ split_call' = [created |-> TRUE, exc |-> NoExc,
                                     training_list |-> shuffled,
                                     validation_list |-> validation_list] @@ call
           ELSE \E loaded_t \in {pickle_load(fs, training_file)} :
                \E loaded_v \in {pickle_load(fs, validation_file)} :
                   /\ fs' = fs
                   /\ split_call' =
                        IF loaded_v.exc # NoExc
                        THEN [created |-> FALSE, exc |-> loaded_v.exc,
                              training_list |-> <<>>, validation_list |-> <<>>] @@ call
                        ELSE [created |-> FALSE, exc |-> NoExc,
                              training_list |-> loaded_t.val,
                              validation_list |-> loaded_v.val] @@ call
    /\ UNCHANGED <<arg, ret>>
    /\ UNCHANGED genVars
    /\ UNCHANGED cfgVars

NextSplit == GetValidationSplit
SpecSplit == InitSplit /\ [][NextSplit]_vars

\* the step is a call with overwrite=false of a split both of whose files exist
ReloadStep ==
    /\ split_call'.op = "get_validation_split"
    /\ ~split_call'.overwrite
    /\ fs[split_call'.training_file].exists
    /\ fs[split_call'.validation_file].exists

\* C2: once the split is written, a call with overwrite=false returns exactly
\* the two persisted lists, creates (reshuffles) nothing and rewrites no file;
\* and a file of a split, once written, changes only in a call with
\* overwrite=true.
C2_SplitPersists ==
    /\ [][ReloadStep =>
            /\ fs' = fs
            /\ ~split_call'.created
            /\ split_call'.exc = NoExc
            /\ split_call'.training_list = fs[split_call'.training_file].pickled.list
            /\ split_call'.validation_list = fs[split_call'.validation_file].pickled.list]_vars
    /\ [][\A p \in TrainingFiles \cup ValidationFiles :
            (fs[p].exists /\ fs'[p] # fs[p]) => split_call'.overwrite]_vars

\* a call with overwrite=false has returned a persisted training list that is
\* not in the order it was built in
C2_Witness ==
    /\ split_call.op = "get_validation_split"
    /\ ~split_call.overwrite /\ ~split_call.created /\ split_call.exc = NoExc
    /\ split_call.training_list = fs[split_call.training_file].pickled.list
    /\ split_call.training_list # training_list

\* 10..29, then 52..71, then 249..268
HeldOut ==
    [i \in 1..60 |-> IF i <= 20 THEN 9 + i ELSE IF i <= 40 THEN 31 + i ELSE 208 + i]

====
